---- MODULE Spec2Model ----
(***************************************************************************)
(* The WebSocket hub of backend/internal/websocket/hub.go.                 *)
(*                                                                         *)
(* One goroutine runs Hub.Run; adapters call Register and Unregister (a    *)
(* send on an unbuffered channel, which returns when Run receives it) and  *)
(* publishers call BroadcastToRound (a send on a channel buffered to 256).  *)
(* Run owns the map h.clients and, for a broadcast, tries a non-blocking    *)
(* send on the Send channel of every client of the round; on a full Send    *)
(* channel it executes "h.unregister <- client", a send on the channel that *)
(* only Run itself receives from.                                           *)
(***************************************************************************)
EXTENDS Integers, Sequences, FiniteSets, TLC

\* ---------------------------------------------------------------- bounds
SendCap == 1          \* capacity of a Client.Send channel (chosen by the adapter)
MaxPublish == 2       \* BroadcastToRound calls in a behaviour
MaxCalls == 3         \* Register and Unregister calls in a behaviour

\* ------------------------------------------------------ program constants
BroadcastCap == 256   \* make(chan *Message, 256)

Clients == {"A", "B"}
Rounds == {"round-1", "round-2"}

NoMsg == [RoundID |-> "", Data |-> 0]
NoClient == ""

VARIABLES
    RoundID,      \* Client.RoundID, fixed when the adapter creates the client
    Send,         \* Client.Send: the payloads buffered on each client's channel
    closed,       \* whether close(client.Send) has been executed
    clients,      \* h.clients: round -> set of clients; DOMAIN = the keys present
    broadcast,    \* h.broadcast: the buffered messages, oldest first
    register,     \* clients whose Register call is blocked in "h.register <- client"
    unregister,   \* clients whose Unregister call is blocked in "h.unregister <- client"
    runPc,        \* where Run is: "init", "select", "fanout", "blocked", "panic"
    msg,          \* Run's local msg during a fan-out
    todo,         \* the clients the range loop has still to visit
    client,       \* Run's local client while it executes "h.unregister <- client"
    \* history (observation only; no action's guard reads these)
    delivered,    \* every payload ever enqueued on each client's Send, in order
    pubLog,       \* per BroadcastToRound call k: what held when it was invoked
    taken,        \* per message Run received from h.broadcast, in order
    regDone,      \* clients for which a Register call has returned
    unregDone,    \* clients for which an Unregister call removed them and returned
    nCalls,       \* Register and Unregister calls made so far
    reRegistered, \* clients Run has registered again after it had closed their Send
    callLog       \* per BroadcastToRound call k, an observation of the Register calls
                  \* at that moment. OrderSpec: the clients whose Register had been
                  \* invoked by then. TwiceSpec: the clients with a repeated call
                  \* waiting (a Register of a member, an Unregister of a closed
                  \* client). Not recorded under Spec.

hubVars == <<clients, broadcast, register, unregister, runPc, msg, todo, client>>
chanVars == <<Send, closed>>
histVars == <<delivered, pubLog, taken, regDone, unregDone, nCalls, reRegistered, callLog>>
vars == <<RoundID, Send, closed, clients, broadcast, register, unregister,
          runPc, msg, todo, client, delivered, pubLog, taken, regDone, unregDone, nCalls,
          reRegistered, callLog>>

\* ---------------------------------------------------------------- helpers
Elems(s) == {s[i] : i \in 1..Len(s)}
Count(x, s) == Cardinality({i \in 1..Len(s) : s[i] = x})
IsPrefix(s, t) == Len(s) <= Len(t) /\ SubSeq(t, 1, Len(s)) = s

\* a lookup that ignores the key: every registered client of every round
Lookup_AnyRound(r) == UNION {clients[x] : x \in DOMAIN clients}

\* h.clients[r]: the inner map, nil (ranged over as empty) when the key is absent
Lookup(r) == IF r \in DOMAIN clients THEN clients[r] ELSE {}

\* an unregister case without the presence checks
IsMember_Always(c) == TRUE

\* the presence checks of the unregister case: the round's key, then the client
IsMember(c) == c \in Lookup(RoundID[c])
Members == UNION {clients[r] : r \in DOMAIN clients}

\* a non-blocking send on c.Send can proceed: the buffer has room
CanSend(c) == Len(Send[c]) < SendCap

\* a send that loses the payload
Enqueue_Drop(q, data) == q

\* the buffer after "client.Send <- data"
Enqueue(q, data) == Append(q, data)

\* a register case that files every client under one fixed key
AfterRegister_FixedKey(c) ==
    [r \in DOMAIN clients \cup {"round-1"} |->
        IF r = "round-1" THEN Lookup(r) \cup {c} ELSE clients[r]]

\* a register case that makes a new inner map every time
AfterRegister_Replace(c) ==
    [r \in DOMAIN clients \cup {RoundID[c]} |->
        IF r = RoundID[c] THEN {c} ELSE clients[r]]

\* a register case that is not idempotent: registering a member drops it
AfterRegister_Toggle(c) ==
    [r \in DOMAIN clients \cup {RoundID[c]} |->
        IF r = RoundID[c]
          THEN (IF c \in Lookup(r) THEN Lookup(r) \ {c} ELSE Lookup(r) \cup {c})
          ELSE clients[r]]

\* h.clients after the register case for c
AfterRegister(c) ==
    [r \in DOMAIN clients \cup {RoundID[c]} |->
        IF r = RoundID[c] THEN Lookup(r) \cup {c} ELSE clients[r]]

\* an unregister case without the len(clients) == 0 clean-up
AfterUnregister_KeepKey(c) ==
    [r \in DOMAIN clients |-> IF r = RoundID[c] THEN clients[r] \ {c} ELSE clients[r]]

\* an unregister case that forgets delete(clients, client)
AfterUnregister_NoDelete(c) == clients

\* h.clients after delete(clients, c) and the len(clients) == 0 clean-up
AfterUnregister(c) ==
    LET rest == Lookup(RoundID[c]) \ {c}
        keys == IF rest = {} THEN DOMAIN clients \ {RoundID[c]} ELSE DOMAIN clients
    IN  [r \in keys |-> IF r = RoundID[c] THEN rest ELSE clients[r]]

\* a close that throws the buffered payloads away
AfterCloseSend_Discard(c) == [Send EXCEPT ![c] = <<>>]

\* the buffers after close(c.Send): closing a channel keeps what it holds
AfterCloseSend(c) == Send

\* an unregister case that forgets close(client.Send)
AfterClose_NoClose(c) == closed

\* closed after close(c.Send)
AfterClose(c) == [closed EXCEPT ![c] = TRUE]

Crashed == runPc = "panic"

\* ------------------------------------------------------------------- Init
Init ==
    \* the adapters choose each client's round; the rounds are interchangeable,
    \* so A's is fixed and B's is either the same or the other one
    /\ RoundID \in {f \in [Clients -> Rounds] : f["A"] = "round-1"}
    /\ Send = [c \in Clients |-> <<>>]
    /\ closed = [c \in Clients |-> FALSE]
    /\ clients = <<>>
    /\ broadcast = <<>>
    /\ register = {}
    /\ unregister = {}
    /\ runPc = "init"
    /\ msg = NoMsg
    /\ todo = {}
    /\ client = NoClient
    /\ delivered = [c \in Clients |-> <<>>]
    /\ pubLog = <<>>
    /\ taken = <<>>
    /\ regDone = {}
    /\ unregDone = {}
    /\ nCalls = 0
    /\ reRegistered = {}
    /\ callLog = <<>>

\* ---------------------------------------------------------------- callers
\* main: go hub.Run()
StartRun ==
    /\ runPc = "init"
    /\ runPc' = "select"
    /\ UNCHANGED <<RoundID, Send, closed, clients, broadcast, register, unregister,
                   msg, todo, client, histVars>>

\* Hub.Register(c) is invoked: the caller blocks in "h.register <- client"
CallRegister(c) ==
    /\ ~Crashed
    /\ c \notin register
    /\ nCalls < MaxCalls
    /\ register' = register \cup {c}
    /\ nCalls' = nCalls + 1
    /\ UNCHANGED <<RoundID, Send, closed, clients, broadcast, unregister,
                   runPc, msg, todo, client, delivered, pubLog, taken, regDone, unregDone,
                   reRegistered, callLog>>

\* Hub.Unregister(c) is invoked: the caller blocks in "h.unregister <- client"
CallUnregister(c) ==
    /\ ~Crashed
    /\ c \notin unregister
    /\ nCalls < MaxCalls
    /\ unregister' = unregister \cup {c}
    /\ nCalls' = nCalls + 1
    /\ UNCHANGED <<RoundID, Send, closed, clients, broadcast, register,
                   runPc, msg, todo, client, delivered, pubLog, taken, regDone, unregDone,
                   reRegistered, callLog>>

\* a BroadcastToRound that swallows the message while Run has not been started
BroadcastToRound_DropUnstarted(r) ==
    /\ ~Crashed
    /\ Len(pubLog) < MaxPublish
    /\ Len(broadcast) < BroadcastCap
    /\ broadcast' = IF runPc = "init" THEN broadcast
                    ELSE Append(broadcast, [RoundID |-> r, Data |-> Len(pubLog) + 1])
    /\ pubLog' = Append(pubLog, [RoundID |-> r, regBefore |-> regDone,
                                 unregBefore |-> unregDone])
    /\ UNCHANGED <<RoundID, Send, closed, clients, register, unregister,
                   runPc, msg, todo, client, delivered, taken, regDone, unregDone, nCalls,
                   reRegistered>>

\* a BroadcastToRound on an unbuffered h.broadcast: the send completes only when
\* Run is at its select to receive it
BroadcastToRound_Rendezvous(r) ==
    /\ ~Crashed
    /\ runPc = "select"
    /\ Len(pubLog) < MaxPublish
    /\ Len(broadcast) < BroadcastCap
    /\ broadcast' = Append(broadcast, [RoundID |-> r, Data |-> Len(pubLog) + 1])
    /\ pubLog' = Append(pubLog, [RoundID |-> r, regBefore |-> regDone,
                                 unregBefore |-> unregDone])
    /\ UNCHANGED <<RoundID, Send, closed, clients, register, unregister,
                   runPc, msg, todo, client, delivered, taken, regDone, unregDone, nCalls,
                   reRegistered>>

\* Hub.BroadcastToRound(r, data): "h.broadcast <- &Message{...}" completes as soon
\* as the buffer has room, and the call returns. The payload is the call's number.
BroadcastToRound(r) ==
    /\ ~Crashed
    /\ Len(pubLog) < MaxPublish
    /\ Len(broadcast) < BroadcastCap
    /\ broadcast' = Append(broadcast, [RoundID |-> r, Data |-> Len(pubLog) + 1])
    /\ pubLog' = Append(pubLog, [RoundID |-> r, regBefore |-> regDone,
                                 unregBefore |-> unregDone])
    /\ UNCHANGED <<RoundID, Send, closed, clients, register, unregister,
                   runPc, msg, todo, client, delivered, taken, regDone, unregDone, nCalls,
                   reRegistered>>

\* the adapter's writer receives one payload from c.Send
Drain(c) ==
    /\ ~Crashed
    /\ Send[c] # <<>>
    /\ Send' = [Send EXCEPT ![c] = Tail(@)]
    /\ UNCHANGED <<RoundID, closed, hubVars, histVars>>

\* -------------------------------------------------------------------- Run
\* a register case taken whether or not Run is at its select: before Run has been
\* started and in the middle of a fan-out as well
RunRegister_Unguarded(c) ==
    /\ runPc \in {"init", "select", "fanout"}
    /\ c \in register
    /\ register' = register \ {c}
    /\ clients' = AfterRegister(c)
    /\ regDone' = regDone \cup {c}
    /\ reRegistered' = IF closed[c] THEN reRegistered \cup {c} ELSE reRegistered
    /\ UNCHANGED <<RoundID, Send, closed, broadcast, unregister, runPc, msg,
                   todo, client, delivered, pubLog, taken, unregDone, nCalls, callLog>>

\* case client := <-h.register
RunRegister(c) ==
    /\ runPc = "select"
    /\ c \in register
    /\ register' = register \ {c}
    /\ clients' = AfterRegister(c)
    /\ regDone' = regDone \cup {c}
    /\ reRegistered' = IF closed[c] THEN reRegistered \cup {c} ELSE reRegistered
    /\ UNCHANGED <<RoundID, Send, closed, broadcast, unregister, runPc, msg,
                   todo, client, delivered, pubLog, taken, unregDone, nCalls, callLog>>

\* case client := <-h.unregister
RunUnregister(c) ==
    /\ runPc = "select"
    /\ c \in unregister
    /\ unregister' = unregister \ {c}
    /\ IF IsMember(c)
         THEN /\ clients' = AfterUnregister(c)
              /\ IF closed[c]
                   THEN \* close of a closed channel
                        /\ runPc' = "panic"
                        /\ UNCHANGED <<Send, closed, unregDone>>
                   ELSE /\ closed' = AfterClose(c)
                        /\ Send' = AfterCloseSend(c)
                        /\ unregDone' = unregDone \cup {c}
                        /\ UNCHANGED runPc
         ELSE UNCHANGED <<clients, Send, closed, runPc, unregDone>>
    /\ UNCHANGED <<RoundID, broadcast, register, msg, todo, client,
                   delivered, pubLog, taken, regDone, nCalls, reRegistered, callLog>>

\* case msg := <-h.broadcast; clients := h.clients[msg.RoundID]
RunBroadcast ==
    /\ runPc = "select"
    /\ broadcast # <<>>
    /\ LET m == Head(broadcast)
           set == Lookup(m.RoundID)
       IN  /\ broadcast' = Tail(broadcast)
           /\ todo' = set
           /\ msg' = IF set = {} THEN NoMsg ELSE m
           /\ runPc' = IF set = {} THEN "select" ELSE "fanout"
           /\ taken' = Append(taken, [Data |-> m.Data, RoundID |-> m.RoundID,
                                      members |-> set,
                                      free |-> {c \in set : ~closed[c] /\
                                                             Len(Send[c]) < SendCap}])
    /\ UNCHANGED <<RoundID, Send, closed, clients, register, unregister, client,
                   delivered, pubLog, regDone, unregDone, nCalls, reRegistered, callLog>>

\* one iteration of "for client := range clients": select { case client.Send <- msg.Data: default: h.unregister <- client }
RunFanout(c) ==
    /\ runPc = "fanout"
    /\ c \in todo
    /\ IF closed[c]
         THEN \* send on a closed channel
              /\ runPc' = "panic"
              /\ UNCHANGED <<Send, delivered, todo, msg, client>>
         ELSE IF CanSend(c)
           THEN /\ Send' = [Send EXCEPT ![c] = Enqueue(@, msg.Data)]
                /\ delivered' = [delivered EXCEPT ![c] = Enqueue(@, msg.Data)]
                /\ todo' = todo \ {c}
                /\ runPc' = IF todo' = {} THEN "select" ELSE "fanout"
                /\ msg' = IF todo' = {} THEN NoMsg ELSE msg
                /\ UNCHANGED client
           ELSE \* default: Run executes "h.unregister <- client"; the only receive
                \* on h.unregister is Run's own select, so the send never completes
                /\ runPc' = "blocked"
                /\ client' = c
                /\ UNCHANGED <<Send, delivered, todo, msg>>
    /\ UNCHANGED <<RoundID, closed, clients, broadcast, register, unregister,
                   pubLog, taken, regDone, unregDone, nCalls, reRegistered, callLog>>

RunNext ==
    \/ StartRun
    \/ \E c \in Clients : RunRegister(c)
    \/ \E c \in Clients : RunUnregister(c)
    \/ RunBroadcast
    \/ \E c \in Clients : RunFanout(c)

Next ==
    \/ StartRun
    \/ \E c \in Clients : CallRegister(c)
    \/ \E c \in Clients : CallUnregister(c)
    \/ \E r \in Rounds : BroadcastToRound(r) /\ UNCHANGED callLog
    \/ \E c \in Clients : Drain(c)
    \/ \E c \in Clients : RunRegister(c)
    \/ \E c \in Clients : RunUnregister(c)
    \/ RunBroadcast
    \/ \E c \in Clients : RunFanout(c)

Spec == Init /\ [][Next]_vars

\* The same program, observed more closely: every BroadcastToRound call also
\* records which Register calls had been invoked when it was made.
NextOrder ==
    \/ StartRun
    \/ \E c \in Clients : CallRegister(c)
    \/ \E c \in Clients : CallUnregister(c)
    \/ \E r \in Rounds : BroadcastToRound(r) /\ callLog' = Append(callLog, regDone \cup register)
    \/ \E c \in Clients : Drain(c)
    \/ \E c \in Clients : RunRegister(c)
    \/ \E c \in Clients : RunUnregister(c)
    \/ RunBroadcast
    \/ \E c \in Clients : RunFanout(c)

OrderSpec == Init /\ [][NextOrder]_vars

\* The same program again; here every BroadcastToRound call records the clients
\* that are in their round's set while a further Register of them waits, and the
\* clients whose Send is closed while a further Unregister of them waits.
NextTwice ==
    \/ StartRun
    \/ \E c \in Clients : CallRegister(c)
    \/ \E c \in Clients : CallUnregister(c)
    \/ \E r \in Rounds : BroadcastToRound(r) /\ callLog' =
                                Append(callLog, [reg |-> Members \cap register,
                                                 unreg |-> {c \in unregister : closed[c]}])
    \/ \E c \in Clients : Drain(c)
    \/ \E c \in Clients : RunRegister(c)
    \/ \E c \in Clients : RunUnregister(c)
    \/ RunBroadcast
    \/ \E c \in Clients : RunFanout(c)

TwiceSpec == Init /\ [][NextTwice]_vars

\* The Go scheduler runs every runnable goroutine: Run takes a step whenever it
\* can. A is the healthy client: its adapter receives whenever Send holds a payload.
\* B's adapter may stall, and callers may stop calling.
FairSpec == Spec /\ WF_vars(RunNext) /\ WF_vars(Drain("A"))

TypeOK ==
    /\ runPc \in {"init", "select", "fanout", "blocked", "panic"}
    /\ DOMAIN clients \subseteq Rounds
    /\ \A c \in Clients : Len(Send[c]) <= SendCap
\* ------------------------------------------------------------ observations
\* the clients whose Send Run found full in a fan-out (it took the default case)
FoundFull == IF runPc = "blocked" THEN {client} ELSE {}

\* the payloads Run took for c's round while c was in the round's set, in order
Expected(c) ==
    LET mine == SelectSeq(taken, LAMBDA t : c \in t.members)
    IN  [i \in 1..Len(mine) |-> mine[i].Data]

\* the message Run is in the middle of fanning out is the last one taken
InProgress(i) == i = Len(taken) /\ msg # NoMsg

\* a payload for c's round waits in h.broadcast or in the running fan-out
Pending(c) ==
    \/ \E i \in 1..Len(broadcast) : broadcast[i].RoundID = RoundID[c]
    \/ msg # NoMsg /\ c \in todo

Increasing(s) == \A i, j \in 1..Len(s) : i < j => s[i] < s[j]

\* -------------------------------------------------------------- properties

\* C1: whenever Run, fanning out a broadcast, finds a client's Send full, that
\* client is evicted as by Unregister: it is out of its round's set and its Send
\* is closed.
C1_SlowConsumerEvicted ==
    \A o \in FoundFull : ~IsMember(o) /\ closed[o]

\* C2: Run never suspends on a per-client operation: whenever it has taken a
\* message and has not yet returned to its select, it can take its next step
\* without any other goroutine acting.
C2_RunNeverSuspends ==
    runPc \in {"fanout", "blocked"} => ENABLED RunNext

\* C3: slow-consumer isolation. With A (draining) and B (stalled) in the same
\* round, every payload Run takes for the round is eventually enqueued on A's
\* Send (unless A itself is unregistered), in publish order, and once B's Send is
\* found full it is eventually closed.
C3_SlowConsumerIsolation ==
    /\ [](Increasing(delivered["A"]))
    /\ ("B" \in FoundFull /\ {"A", "B"} \subseteq Lookup(RoundID["B"])) ~> closed["B"]
    /\ \A k \in 1..MaxPublish :
         (\E i \in 1..Len(taken) : taken[i].Data = k /\ {"A", "B"} \subseteq taken[i].members)
            ~> (k \in Elems(delivered["A"]) \/ closed["A"] \/ Crashed)

\* C4: a stalled client never stops delivery to another one: whenever a client
\* that is registered, open and has room has a payload for its round waiting,
\* Run is able to go on (it has not been started yet, or it can take a step).
C4_StalledNeverStopsOthers ==
    \A o \in Clients :
        (IsMember(o) /\ ~closed[o] /\ CanSend(o) /\ Pending(o) /\ o \notin FoundFull
            /\ ~Crashed)
        => ENABLED RunNext

\* C5: with Run running, every Register and every Unregister call eventually
\* returns to its caller.
C5_CallsReturn ==
    \A c \in Clients :
        /\ (c \in register) ~> (c \notin register \/ Crashed)
        /\ (c \in unregister) ~> (c \notin unregister \/ Crashed)

\* C6: if Register(o) returned before BroadcastToRound(o.RoundID, p) was invoked
\* and o is still registered, open and has room when Run takes p, then p is placed
\* on o's Send: once Run is no longer working through the fan-out, p is there.
C6_RegisteredBeforePublishReceives ==
    runPc \in {"select", "blocked"} =>
        \A i \in 1..Len(taken) :
            \A o \in taken[i].free \cap pubLog[taken[i].Data].regBefore :
                taken[i].Data \in Elems(delivered[o])

\* C7: post-unregister silence. Once Unregister(o) has returned for a registered
\* o, o's Send is closed and no payload of a BroadcastToRound invoked afterwards,
\* to any round, is ever enqueued on it.
C7_PostUnregisterSilence ==
    \A k \in 1..Len(pubLog) :
        \A o \in pubLog[k].unregBefore :
            closed[o] /\ k \notin Elems(delivered[o])

\* C8: per-client FIFO. For a client that remains registered, the payloads placed
\* on its Send are exactly the payloads published to its round while it was
\* registered, in submission order: whenever Run is not working through a
\* fan-out, the two sequences are equal.
C8_PerObserverFIFO ==
    runPc \in {"select", "blocked"} =>
        \A o \in Clients :
            (IsMember(o) /\ o \notin unregDone /\ ~closed[o])
                => delivered[o] = Expected(o)

\* C9: no cross-round leakage. A step of Run that processes a broadcast to one
\* round never enqueues on, closes, or removes from h.clients a client of another
\* round; and every payload ever enqueued on a client was published to its round.
C9_NoCrossTopicLeakage ==
    [][ /\ \A o \in Clients : \A i \in 1..Len(delivered'[o]) :
              pubLog'[delivered'[o][i]].RoundID = RoundID'[o]
        /\ \A o \in Clients :
              (\/ runPc = "fanout" /\ msg.RoundID # RoundID[o]
               \/ runPc = "select" /\ Len(broadcast') < Len(broadcast)
                                   /\ Head(broadcast).RoundID # RoundID[o])
              => /\ delivered'[o] = delivered[o]
                 /\ closed'[o] = closed[o]
                 /\ (o \in Members) = (o \in Members')
      ]_vars

\* C10: fan-out completeness. When every client in the round's set is open and has
\* room as Run takes a message, the fan-out runs to its end (Run neither blocks
\* nor panics) and enqueues exactly one copy of the payload on each of them, in
\* whatever order the set is ranged over.
C10_FanOutComplete ==
    \A i \in 1..Len(taken) :
        taken[i].free = taken[i].members =>
            IF InProgress(i)
              THEN /\ runPc = "fanout"
                   /\ \A c \in taken[i].members :
                        Count(taken[i].Data, delivered[c]) = IF c \in todo THEN 0 ELSE 1
              ELSE \A c \in taken[i].members : Count(taken[i].Data, delivered[c]) = 1

\* --------------------------------------------------------------- witnesses
\* C7: o was registered, Unregister(o) returned, a later BroadcastToRound to o's
\* own round was invoked and Run has processed it
C7_Witness ==
    \E i \in 1..Len(taken) : \E o \in pubLog[taken[i].Data].unregBefore :
        /\ taken[i].RoundID = RoundID[o]
        /\ runPc = "select"

\* C9: Run has fanned a broadcast out to the client of one round, to the end,
\* while a client of the other round was registered
C9_Witness ==
    \E i \in 1..Len(taken) : \E o \in Clients :
        /\ taken[i].members # {}
        /\ taken[i].RoundID # RoundID[o]
        /\ o \in pubLog[taken[i].Data].regBefore
        /\ IsMember(o) /\ ~closed[o]
        /\ ~InProgress(i)
        /\ runPc = "select"

\* C10: a broadcast to a round with two clients, both with room, has been fanned
\* out to the end
C10_Witness ==
    \E i \in 1..Len(taken) :
        /\ taken[i].members = {"A", "B"}
        /\ taken[i].free = taken[i].members
        /\ ~InProgress(i)
        /\ \A c \in Clients : Count(taken[i].Data, delivered[c]) = 1

\* ---------------------------------------------------- properties, continued
\* the step in which Run receives c from h.register / h.unregister
TakesRegister(c) == runPc = "select" /\ c \in register /\ c \notin register'
TakesUnregister(c) == runPc = "select" /\ c \in unregister /\ c \notin unregister'
\* the step in which Run receives a message from h.broadcast
TakesBroadcast == runPc = "select" /\ Len(broadcast') < Len(broadcast)

\* C11: topic clean-up. A key is present in h.clients if and only if its set is
\* non-empty: no key maps to an empty set, in particular not after the last
\* client of a round has been unregistered.
C11_TopicCleanup ==
    \A r \in Rounds : (r \in DOMAIN clients) <=> (\E c \in Clients : c \in Lookup(r))

\* C11 witness: the only client of a round was registered and then unregistered,
\* while the other round still has a client
C11_Witness ==
    \E o \in unregDone :
        /\ RoundID[o] \notin DOMAIN clients
        /\ DOMAIN clients # {}

\* C12: membership. A client is in at most one round's set, that round is its own
\* RoundID, and it enters a set only in the step that processes its Register and
\* leaves only in the step that processes its Unregister.
C12_Membership ==
    [][ /\ \A r \in DOMAIN clients' : \A c \in clients'[r] : RoundID'[c] = r
        /\ \A c \in Clients :
              /\ Cardinality({r \in DOMAIN clients' : c \in clients'[r]}) <= 1
              /\ (c \notin Members /\ c \in Members') => TakesRegister(c)
              /\ (c \in Members /\ c \notin Members') => TakesUnregister(c)
      ]_vars

\* C12 witness: the two clients are registered, each under its own round
C12_Witness ==
    /\ RoundID["A"] # RoundID["B"]
    /\ \A c \in Clients : c \in Lookup(RoundID[c])
    /\ Cardinality(DOMAIN clients) = 2

\* C13: idempotent unregister. Processing an Unregister of a client that is not in
\* h.clients (already unregistered, or never registered) does not panic and
\* leaves h.clients and every other client's Send, contents and open/closed,
\* unchanged.
C13_IdempotentUnregister ==
    [][ \A c \in Clients :
          (TakesUnregister(c) /\ c \notin Members)
          => /\ runPc' = "select"
             /\ clients' = clients
             /\ \A d \in Clients \ {c} : Send'[d] = Send[d] /\ closed'[d] = closed[d]
      ]_vars

\* C13 witness: one client was registered and unregistered, and a further
\* Unregister (of it again, or of the never registered other client) has been
\* processed
C13_Witness ==
    /\ nCalls = 3
    /\ register = {} /\ unregister = {}
    /\ Cardinality(regDone) = 1 /\ unregDone = regDone
    /\ Members = {}
    /\ runPc = "select"

\* C14: unregister effect. The step that processes Unregister(o) for a registered
\* o (with Send open) removes o from its round's set, closes o.Send, deletes the
\* round's key when the set became empty, and leaves the other clients alone.
C14_UnregisterEffect ==
    [][ \A o \in Clients :
          (TakesUnregister(o) /\ o \in Members /\ ~closed[o])
          => /\ o \notin Members'
             /\ closed'[o]
             /\ (clients[RoundID[o]] = {o}) => (RoundID[o] \notin DOMAIN clients')
             /\ (clients[RoundID[o]] # {o}) =>
                    (RoundID[o] \in DOMAIN clients'
                        /\ clients'[RoundID[o]] = clients[RoundID[o]] \ {o})
             /\ \A r \in DOMAIN clients \ {RoundID[o]} :
                    r \in DOMAIN clients' /\ clients'[r] = clients[r]
             /\ \A d \in Clients \ {o} : closed'[d] = closed[d]
             /\ Send' = Send
             /\ runPc' = "select"
      ]_vars

\* C14 witness: of two clients of one round, one has been unregistered and the
\* other is still in the set
C14_Witness ==
    \E o \in unregDone : \E d \in Clients \ {o} :
        /\ closed[o] /\ o \notin Members
        /\ RoundID[d] = RoundID[o]
        /\ RoundID[o] \in DOMAIN clients /\ clients[RoundID[o]] = {d}

\* C15: register effect. The step that processes Register(o) creates the set of
\* o's round when absent and inserts o, and changes nothing else: the other
\* rounds' keys and sets, the other members of o's round and every Send.
C15_RegisterEffect ==
    [][ \A o \in Clients :
          TakesRegister(o)
          => /\ RoundID[o] \in DOMAIN clients'
             /\ clients'[RoundID[o]] =
                  (IF RoundID[o] \in DOMAIN clients THEN clients[RoundID[o]] ELSE {}) \cup {o}
             /\ DOMAIN clients' = DOMAIN clients \cup {RoundID[o]}
             /\ \A r \in DOMAIN clients \ {RoundID[o]} : clients'[r] = clients[r]
             /\ Send' = Send /\ closed' = closed /\ delivered' = delivered
             /\ runPc' = runPc
      ]_vars

\* C15 witness: a second client has been registered under a round that already
\* had one
C15_Witness ==
    \E r \in DOMAIN clients : clients[r] = {"A", "B"}

\* C16: a broadcast to a round without clients is a silent no-op. The step in
\* which Run takes such a message leaves h.clients and every Send unchanged,
\* creates no key, and Run is back at its select without a panic.
C16_EmptyTopicPublish ==
    [][ (TakesBroadcast /\ ~\E c \in Clients : c \in Members
                                   /\ RoundID[c] = Head(broadcast).RoundID)
        => /\ clients' = clients
           /\ Send' = Send /\ closed' = closed /\ delivered' = delivered
           /\ runPc' = "select"
      ]_vars

\* C16 witness: Run has taken a broadcast for a round without clients while the
\* other round had one, and one for a round emptied by an unregistration
C16_Witness ==
    \E i \in 1..Len(taken) :
        /\ taken[i].members = {}
        /\ runPc = "select"
        /\ \/ \E c \in Members : RoundID[c] # taken[i].RoundID /\ ~closed[c]
                                   /\ c \in pubLog[taken[i].Data].regBefore
           \/ \E c \in pubLog[taken[i].Data].unregBefore : RoundID[c] = taken[i].RoundID

\* C17 (as claimed): a call made while Run has not been started is reported to
\* its caller and never accepted: the hub holds no request, nothing is buffered
\* in h.broadcast and no caller waits on h.register or h.unregister.
C17_NotRunningRejected ==
    runPc = "init" => (broadcast = <<>> /\ register = {} /\ unregister = {})

\* C17 (amended): while Run has not been started nothing is reported. Every
\* BroadcastToRound call returns normally with its message buffered in
\* h.broadcast, in call order, and every Register and Unregister call made is
\* still waiting on its channel; none has returned and nothing has panicked.
C17_NotRunningBuffersOrBlocks ==
    runPc = "init" =>
        /\ Len(broadcast) = Len(pubLog)
        /\ \A k \in 1..Len(pubLog) :
              broadcast[k] = [RoundID |-> pubLog[k].RoundID, Data |-> k]
        /\ regDone = {} /\ unregDone = {}
        /\ Cardinality(register) + Cardinality(unregister) = nCalls

\* C17 witness: before Run is started, two broadcasts are buffered and a
\* Register and an Unregister call wait
C17_Witness ==
    /\ runPc = "init"
    /\ Len(broadcast) = 2
    /\ register # {} /\ unregister # {}

\* C18 (amended): calls take effect in real-time order when the earlier call is a
\* Register or an Unregister (they return only when Run has taken them), and
\* broadcasts are taken in call order. For every message k Run takes: every
\* broadcast taken before it was called before it; a client whose Register had
\* returned when k was called, and that was not unregistered, is in the set k is
\* fanned out to; a client whose Unregister had removed it when k was called is
\* not among the open clients k can be sent to.
C18_OrderAfterRegisterUnregister ==
    \A i \in 1..Len(taken) :
        LET k == taken[i].Data
        IN  /\ i > 1 => taken[i-1].Data < k
            /\ \A o \in pubLog[k].regBefore :
                  (RoundID[o] = taken[i].RoundID /\ o \notin unregDone)
                      => o \in taken[i].members
            /\ \A o \in pubLog[k].unregBefore : o \notin taken[i].free

\* C18 (as claimed): the same holds whatever the earlier call is; in particular a
\* payload whose BroadcastToRound had returned before Register(o) was invoked is
\* never enqueued on o's Send.
C18_RealTimeOrder ==
    /\ C18_OrderAfterRegisterUnregister
    /\ \A k \in 1..Len(callLog) :
          \A o \in Clients \ callLog[k] : k \notin Elems(delivered[o])

\* C18 witness: a broadcast called after Register(o) had returned has been fanned
\* out to o, after an earlier broadcast was taken
C18_Witness ==
    \E i \in 2..Len(taken) : \E o \in pubLog[taken[i].Data].regBefore :
        /\ o \in taken[i].members
        /\ taken[i].Data \in Elems(delivered[o])
        /\ Len(callLog) = Len(pubLog)

\* C19 (as claimed): handles are single-use. Once a client has been unregistered
\* (its Send closed), it is never in any round's set again.
C19_SingleUse ==
    \A o \in Clients : closed[o] => o \notin Members

\* C19 (amended): once a client has been unregistered its Send stays closed and
\* nothing is enqueued on it any more, and neither Unregister nor a broadcast
\* puts it back into a set; only the step that processes a further Register of
\* it does.
C19_OnlyRegisterReadmits ==
    [][ \A o \in Clients :
          /\ closed[o] => (closed'[o] /\ delivered'[o] = delivered[o])
          /\ (closed'[o] /\ o \in Members')
                => (closed[o] /\ (o \in Members \/ TakesRegister(o)))
      ]_vars

\* C19 witness: a client was registered, unregistered and registered again: it is
\* in its round's set with its Send closed
C19_Witness ==
    \E o \in unregDone : closed[o] /\ o \in Lookup(RoundID[o]) /\ ~Crashed

\* C20: drain-loop termination. After the registered client A has been
\* unregistered, its adapter, which keeps receiving from A.Send, eventually finds
\* the channel closed and empty: its next receive reports end-of-stream (or the
\* process has crashed, which ends the loop as well).
C20_DrainLoopTerminates ==
    ("A" \in unregDone) ~> ((closed["A"] /\ Send["A"] = <<>>) \/ Crashed)

\* C20 witness: A received a payload, was unregistered, and its adapter has
\* drained the closed channel
C20_Witness ==
    /\ "A" \in unregDone
    /\ closed["A"] /\ Send["A"] = <<>>
    /\ delivered["A"] # <<>>
    /\ ~Crashed

\* the step in which the fan-out loop completes "client.Send <- msg.Data"
EnqueueStep == runPc = "fanout" /\ todo' # todo

\* C21: a broadcast whose sends all succeed changes only the Send channels of
\* clients of its round. The step that takes the message changes no channel; each
\* successful send appends the payload to the Send of one client of the round and
\* to nothing else; neither step changes h.clients or closes a channel, and Run
\* neither blocks nor panics.
C21_PublishFrame ==
    [][ /\ TakesBroadcast => (clients' = clients /\ closed' = closed /\ Send' = Send)
        /\ EnqueueStep =>
              /\ clients' = clients
              /\ closed' = closed
              /\ runPc' \in {"select", "fanout"}
              /\ \E c \in todo :
                    /\ RoundID[c] = msg.RoundID
                    /\ todo' = todo \ {c}
                    /\ Send' = [Send EXCEPT ![c] = Append(@, msg.Data)]
      ]_vars

\* C21 witness: the second broadcast has been fanned out to the end over a round
\* of two clients; both are still in the set, open, and hold the payload
C21_Witness ==
    /\ Len(taken) = 2
    /\ taken[2].members = {"A", "B"}
    /\ runPc = "select"
    /\ Lookup(taken[2].RoundID) = {"A", "B"}
    /\ \A c \in Clients : ~closed[c] /\ taken[2].Data \in Elems(delivered[c])

\* the number of messages Run receives from its three channels in one step
Received ==
    Cardinality(register \ register') + Cardinality(unregister \ unregister')
        + (IF Len(broadcast') < Len(broadcast) THEN 1 ELSE 0)

\* C22: serialisation. h.clients changes only in a step in which Run, at its
\* select, takes a Register or an Unregister; Run receives at most one message per
\* step and none while a fan-out is in progress, so the set a fan-out ranges over
\* is the round's set as it was when the message was taken, to the end.
C22_Serialisation ==
    [][ /\ clients' # clients =>
              (runPc = "select" /\ \E c \in Clients : TakesRegister(c) \/ TakesUnregister(c))
        /\ Received <= 1
        /\ runPc \in {"fanout", "blocked"} => (Received = 0 /\ clients' = clients)
        /\ runPc' \in {"fanout", "blocked"} =>
              /\ (Lookup(msg.RoundID))' = taken'[Len(taken')].members
              /\ todo' \subseteq taken'[Len(taken')].members
      ]_vars

\* C22 witness: a fan-out over a round of two clients is half-way, and an
\* Unregister of one of the two waits on h.unregister
C22_Witness ==
    /\ runPc = "fanout"
    /\ Lookup(msg.RoundID) = {"A", "B"}
    /\ Cardinality(todo) = 1
    /\ unregister \cap Lookup(msg.RoundID) # {}

\* C23 (as claimed): in every reachable state no send on a closed Send channel is
\* attempted: every client the fan-out has still to send to has an open channel.
C23_NoSendOnClosed ==
    runPc = "fanout" => \A o \in todo : ~closed[o]

\* C23 (amended): a broadcast made while o was registered but taken by Run after
\* o's Unregister does not find o in the round's set and is never enqueued on
\* o.Send; and the fan-out attempts a send on a closed channel only for a client
\* that was registered again after its unregistration.
C23_NoSendAfterUnregister ==
    /\ \A o \in Clients : (runPc = "fanout" /\ o \in todo /\ closed[o]) => o \in reRegistered
    /\ \A i \in 1..Len(taken) :
          \A o \in pubLog[taken[i].Data].regBefore :
              (RoundID[o] = taken[i].RoundID /\ o \notin taken[i].members)
                  => (o \in unregDone /\ taken[i].Data \notin Elems(delivered[o]))

\* C23 witness: a broadcast to o's round was made while o was registered, Run
\* processed Unregister(o) first and the broadcast after it, to the end
C23_Witness ==
    \E i \in 1..Len(taken) :
        \E o \in pubLog[taken[i].Data].regBefore \ pubLog[taken[i].Data].unregBefore :
            /\ RoundID[o] = taken[i].RoundID
            /\ o \notin taken[i].members
            /\ o \in unregDone /\ o \notin reRegistered
            /\ runPc = "select"

\* C24: until Run has been started no call has an effect on h.clients or on any
\* client's Send: the map is empty and every Send is open and empty, with nothing
\* ever enqueued, whatever calls have been made.
C24_NoEffectBeforeRun ==
    runPc = "init" =>
        /\ clients = <<>>
        /\ \A c \in Clients : Send[c] = <<>> /\ ~closed[c] /\ delivered[c] = <<>>
        /\ taken = <<>>

\* C24 witness: before Run is started, Register was called for both clients,
\* Unregister for one, and a broadcast was made
C24_Witness ==
    /\ runPc = "init"
    /\ register = Clients
    /\ Cardinality(unregister) = 1
    /\ pubLog # <<>>

\* C25: BroadcastToRound returns without waiting for Run whenever h.broadcast
\* holds fewer than 256 messages: in every state from which a step is taken the
\* call can complete, wherever Run is, and its step only appends to the buffer. Register and Unregister return only in the
\* step in which Run, at its select, takes the client from the channel; the
\* register case has then inserted it, the unregister case has then removed it.
C25_BufferedVersusRendezvous ==
    [][ /\ \A r \in Rounds :
              (~Crashed /\ Len(pubLog) < MaxPublish /\ Len(broadcast) < 256)
                  => ENABLED BroadcastToRound(r)
        /\ Len(pubLog') > Len(pubLog) =>
              /\ Len(broadcast') = Len(broadcast) + 1
              /\ runPc' = runPc /\ taken' = taken /\ clients' = clients
        /\ \A c \in Clients :
              /\ (c \in register /\ c \notin register') =>
                    (runPc = "select" /\ c \in Members' /\ c \in regDone')
              /\ (c \in unregister /\ c \notin unregister') =>
                    (runPc = "select" /\ c \notin Members')
              /\ (c \in register /\ runPc # "select") => c \in register'
              /\ (c \in unregister /\ runPc # "select") => c \in unregister'
      ]_vars

\* C25 witness: while Run is in the middle of a fan-out, a later BroadcastToRound
\* has returned with its message buffered, and a Register call is still waiting
C25_Witness ==
    /\ runPc = "fanout"
    /\ Len(pubLog) = 2 /\ Len(broadcast) = 1
    /\ register # {}

\* C26: registering a client that is already in its round's set changes nothing.
\* The step that processes the second Register leaves h.clients, every Send and
\* Run's position as they were, so the hub goes on from the same state as after
\* one registration: no payload is ever enqueued twice on a client, and the step
\* that processes one Unregister of a member takes it out of every set.
C26_RegisterTwice ==
    [][ \A c \in Clients :
          /\ (TakesRegister(c) /\ c \in Members) =>
                /\ clients' = clients
                /\ Send' = Send /\ closed' = closed /\ delivered' = delivered
                /\ broadcast' = broadcast
                /\ <<runPc, msg, todo, client>>' = <<runPc, msg, todo, client>>
          /\ \A k \in 1..Len(pubLog') : Count(k, delivered'[c]) <= 1
          /\ (TakesUnregister(c) /\ c \in Members) => c \notin Members'
      ]_vars

\* C26 witness: Register(o) was waiting while o was in its round's set when the
\* first broadcast was made, and Run has processed it; the second broadcast was
\* then enqueued on o once, and one Unregister has removed o
C26_Witness ==
    \E o \in Clients :
        /\ Len(callLog) = 2 /\ o \in callLog[1].reg
        /\ o \notin register /\ o \notin reRegistered
        /\ o \in pubLog[2].regBefore /\ o \notin pubLog[2].unregBefore
        /\ Count(2, delivered[o]) = 1
        /\ o \in unregDone /\ o \notin Members
        /\ ~Crashed

\* C27: a client's Send is closed at most once, provided the client is not
\* registered again after its unregistration (in particular when it is registered
\* at most once). A channel goes from open to closed only in the step that
\* processes an Unregister of a member, and never back; processing a further
\* Unregister of it executes no close (Run does not panic), and neither a fan-out
\* step nor Run's own unregister send closes anything.
C27_ClosedAtMostOnce ==
    [][ \A c \in Clients :
          /\ closed[c] => closed'[c]
          /\ (~closed[c] /\ closed'[c]) => (TakesUnregister(c) /\ c \in Members)
          /\ (TakesUnregister(c) /\ closed[c] /\ c \notin reRegistered) =>
                (runPc' = "select" /\ clients' = clients)
      ]_vars

\* C27 witness: Unregister(o) was waiting when o.Send was already closed (at the
\* time of a broadcast), Run has processed it, and nothing has panicked
C27_Witness ==
    \E o \in Clients : \E k \in 1..Len(callLog) :
        /\ o \in callLog[k].unreg
        /\ o \notin unregister /\ o \notin reRegistered
        /\ closed[o]
        /\ runPc = "select"

\* C28: as long as a client has not been registered again after its
\* unregistration (in particular when it is registered at most once), it is in
\* h.clients only with its Send open: the unregister case removes and closes in
\* one step, so the fan-out never has a closed channel to send to.
C28_MembersAreOpen ==
    \A c \in Clients \ reRegistered :
        /\ c \in Members => ~closed[c]
        /\ c \in unregDone => (closed[c] /\ c \notin Members)
        /\ (runPc \in {"fanout", "blocked"} /\ c \in todo) => ~closed[c]

\* C28 witness: of two clients of one round one was unregistered; a broadcast made
\* afterwards has been fanned out to the other one, to the end
C28_Witness ==
    /\ reRegistered = {}
    /\ \E i \in 1..Len(taken) : \E o \in pubLog[taken[i].Data].unregBefore :
          /\ taken[i].RoundID = RoundID[o]
          /\ taken[i].members = Clients \ {o}
          /\ taken[i].Data \in Elems(delivered[CHOOSE d \in Clients : d # o])
          /\ runPc = "select"

\* C29: the step that processes an Unregister of a client that is in no set (its
\* round's key is absent, or the key's set does not hold it) does not close the
\* client's Send and leaves its contents as they are; Run does not panic.
C29_UnregisterNonMember ==
    [][ \A c \in Clients :
          (TakesUnregister(c) /\ c \notin Members)
          => /\ closed'[c] = closed[c]
             /\ Send'[c] = Send[c]
             /\ runPc' = "select"
      ]_vars

\* C29 witness: exactly one call has been made and processed, and it was not a
\* Register: an Unregister of a never registered client, whose Send is open
C29_Witness ==
    /\ nCalls = 1
    /\ register = {} /\ unregister = {} /\ regDone = {}
    /\ runPc = "select"
    /\ \A c \in Clients : ~closed[c]

====
